---------------------------- MODULE Spec2Model ----------------------------
(***************************************************************************)
(* redep: the configuration provider (lib/config.js) and the process       *)
(* supervisor of the CLI (bin/index.js): start / stop / status / listen,   *)
(* the external process manager pm2 tried first and the native background  *)
(* process with its persisted server_pid as the fallback.                  *)
(***************************************************************************)
EXTENDS Integers, Sequences, FiniteSets, TLC

(***************************************************************************)
(* Bounds of the model.                                                    *)
(***************************************************************************)
\* process ids the operating system hands out: 1..MaxPid
MaxPid == 3
\* CLI invocations that can be in progress at the same time
NumInv == 2

PIDs == 1..MaxPid
Invs == 1..NumInv

(***************************************************************************)
(* JavaScript values, as far as the code distinguishes them.               *)
(***************************************************************************)
Undefined == [t |-> "undefined"]
Null == [t |-> "null"]
Str(s) == [t |-> "string", s |-> s]
Num(n) == [t |-> "number", n |-> n]
EmptyObject == [t |-> "object"]

\* !value of JavaScript
Falsy(v) == v \in {Undefined, Null, Str(""), Num(0)}

(***************************************************************************)
(* CONFIG_SCHEMA: the environment variable and the default of each key.    *)
(* SchemaEnv gives Null for a key whose schema entry has env: null.        *)
(***************************************************************************)
DEFAULT_PORT == 3000

SchemaKeys ==
    {"server_port", "secret_key", "working_dir", "deployment_command",
     "server_url", "servers", "server_pid"}

SchemaEnv(key) ==
    CASE key = "server_port" -> Str("SERVER_PORT")
      [] key = "secret_key" -> Str("SECRET_KEY")
      [] key = "working_dir" -> Str("WORKING_DIR")
      [] key = "deployment_command" -> Str("DEPLOYMENT_COMMAND")
      [] key = "server_url" -> Str("SERVER_URL")
      [] key = "servers" -> Null
      [] key = "server_pid" -> Null

SchemaDefault(key) ==
    CASE key = "server_port" -> Num(DEFAULT_PORT)
      [] key = "servers" -> EmptyObject
      [] OTHER -> Null

\* a key outside the schema that `config get` may be asked for
CustomKey == "custom_key"
StoreKeys == SchemaKeys \cup {CustomKey}

\* names of environment variables; SERVER_PID is mapped by no schema entry
EnvNames ==
    {"SERVER_PORT", "SECRET_KEY", "WORKING_DIR", "DEPLOYMENT_COMMAND",
     "SERVER_URL", "SERVER_PID"}

VARIABLES
    env,      \* process.env of the CLI: environment name -> Undefined or a string
    store,    \* the persisted Conf store: key -> Undefined (absent) or a value
    procs,    \* the host's process table: pid -> kind of process, "free" if none
    inv,      \* the CLI invocations in progress: slot -> record
    last,     \* the invocation that completed last
    audit     \* whether the bookkeeping for the properties is kept

vars == <<env, store, procs, inv, last, audit>>

(***************************************************************************)
(* lib/config.js                                                           *)
(***************************************************************************)
\* getConfig with the lookups in the wrong order: the store before the environment
GetConfigStoreFirst(key) ==
    IF store[key] # Undefined
    THEN store[key]
    ELSE IF key \in SchemaKeys /\ ~Falsy(SchemaEnv(key))
              /\ env[SchemaEnv(key).s] # Undefined
         THEN env[SchemaEnv(key).s]
         ELSE IF key \in SchemaKeys THEN SchemaDefault(key) ELSE Undefined

GetConfig(key) ==
    IF key \in SchemaKeys /\ ~Falsy(SchemaEnv(key))
         /\ env[SchemaEnv(key).s] # Undefined
    THEN env[SchemaEnv(key).s]
    ELSE LET value == store[key]
         IN  IF value = Undefined /\ key \in SchemaKeys
             THEN SchemaDefault(key)
             ELSE value

\* setConfig(key, value): config.set(key, value); the _meta timestamp it also
\* writes is read by none of the modelled operations
SetConfig(key, value) == [store EXCEPT ![key] = value]

\* validateMandatoryConfig that forgets the deployment command
ValidateWithoutCommand ==
    (IF Falsy(GetConfig("secret_key")) THEN <<"secret_key">> ELSE <<>>)
    \o (IF Falsy(GetConfig("working_dir")) THEN <<"working_dir">> ELSE <<>>)

\* validateMandatoryConfig: the three checks push in this order
ValidateMandatoryConfig ==
    (IF Falsy(GetConfig("secret_key")) THEN <<"secret_key">> ELSE <<>>)
    \o (IF Falsy(GetConfig("working_dir")) THEN <<"working_dir">> ELSE <<>>)
    \o (IF Falsy(GetConfig("deployment_command"))
        THEN <<"deployment_command">> ELSE <<>>)

\* getMissingConfigMessage: null for an empty list, else the message, kept as
\* the list of the keys it quotes (paramList), in order
GetMissingConfigMessage(missingParams) ==
    IF Len(missingParams) = 0
    THEN Null
    ELSE [t |-> "message", params |-> missingParams]

(***************************************************************************)
(* The host's processes.                                                   *)
(*   "native"  a server spawned by startNativeBackground                   *)
(*   "pm2"     the server pm2 runs under the name redep-server             *)
(*   "other"   a process of the same user that is no server                *)
(*   "alien"   a process of another user: signalling it fails with EPERM   *)
(***************************************************************************)
ServerKinds == {"native", "pm2"}
ForeignKinds == {"other", "alien"}

FreePids == {p \in PIDs : procs[p] = "free"}
LiveServers == {p \in PIDs : procs[p] \in ServerKinds}
LiveNative == {p \in PIDs : procs[p] = "native"}
LivePm2 == {p \in PIDs : procs[p] = "pm2"}
Foreign == {p \in PIDs : procs[p] \in ForeignKinds}

\* process.kill accepts pid when pid == (pid | 0): a number, or a string that
\* spells one (per_thread.js of Node; reached at 424, 470 and 502)
ValidPid(pid) ==
    \/ pid.t = "number"
    \/ pid.t = "string" /\ \E p \in PIDs : ToString(p) = pid.s

\* The process number a valid pid is coerced to
PidOf(pid) ==
    IF pid.t = "number" THEN pid.n
    ELSE CHOOSE p \in PIDs : ToString(p) = pid.s

\* What a pid names in the process table
ProcKind(pid) ==
    IF ~ValidPid(pid) THEN "invalid"
    ELSE IF PidOf(pid) \in PIDs THEN procs[PidOf(pid)] ELSE "free"

\* process.kill(pid, signal) treating every process as signalable
KillResultNoPermissionCheck(pid) ==
    CASE ProcKind(pid) = "invalid" -> "ERR_INVALID_ARG_TYPE"
      [] ProcKind(pid) = "free" -> "ESRCH"
      [] OTHER -> "ok"

\* The outcome of process.kill(pid, signal) on the process table: it returns,
\* or throws with code ESRCH (no such process), EPERM (not permitted) or
\* ERR_INVALID_ARG_TYPE (pid is no number)
KillResult(pid) ==
    CASE ProcKind(pid) = "invalid" -> "ERR_INVALID_ARG_TYPE"
      [] ProcKind(pid) = "free" -> "ESRCH"
      [] ProcKind(pid) = "alien" -> "EPERM"
      [] OTHER -> "ok"


(***************************************************************************)
(* A CLI invocation: one run of `redep <cmd>`, a process of its own.       *)
(* Program state: cmd, pc (where it stands), pid (the local existingPid /  *)
(* pid it read), child (child.pid), closePending (the 'close' event of the *)
(* pm2 subprocess is still to come), exit (process exit code, 0 unless     *)
(* process.exit(1) or an uncaught exception), report and rpid (what the    *)
(* logger printed last and the PID in it), msg (the error message of the   *)
(* validation), served (startServer was called).                           *)
(* Bookkeeping for the properties: pm2 (outcome of the pm2 attempt),       *)
(* attempts (pm2 subprocesses spawned), entries (entries into              *)
(* startNativeBackground), nspawn (native processes spawned), spid (the    *)
(* server process this start brought up), pid0 (server_pid at the start of *)
(* the invocation), prevCmd / prevReport / prevAlive / afterPair (the one  *)
(* completed before this one began), live (live servers when it finished), *)
(* probed (what the recorded pid named when this invocation signalled it). *)
(* For deploy: arg (the serverName argument), sent (the arguments of the   *)
(* call of the trigger client), and the bookkeeping calls (calls made).    *)
(***************************************************************************)
\* No call of the trigger client
NoCall == [name |-> "", url |-> Undefined, secret |-> Undefined]

Idle ==
    [cmd |-> "none", pc |-> "idle", pid |-> Undefined, child |-> 0,
     closePending |-> FALSE, exit |-> 0, report |-> "none", rpid |-> Undefined,
     msg |-> Null, served |-> FALSE,
     pm2 |-> "none", attempts |-> 0, entries |-> 0, nspawn |-> 0, spid |-> 0,
     pid0 |-> Undefined, prevCmd |-> "none", prevReport |-> "none",
     prevAlive |-> FALSE, afterPair |-> FALSE, live |-> 0, probed |-> "none",
     arg |-> "", sent |-> NoCall, calls |-> 0]

NoLast == [cmd |-> "none", report |-> "none", spid |-> 0, pair |-> FALSE]

AllIdle == \A j \in Invs : inv[j].pc = "idle"

\* A new invocation of cmd in slot i
Fresh(cmd) ==
    [Idle EXCEPT !.cmd = cmd,
                 !.pid0 = store["server_pid"],
                 !.prevCmd = last.cmd,
                 !.prevReport = last.report,
                 !.prevAlive = (last.spid # 0 /\ last.spid \in LiveServers),
                 !.afterPair = last.pair]

\* The handler returned and nothing is pending: the record as the process
\* ends; its local variables are gone
Finish(r, report, rpid, live) ==
    [r EXCEPT !.pc = "done", !.report = report, !.rpid = rpid, !.live = live,
              !.pid = Undefined, !.closePending = FALSE]

\* r without the bookkeeping
Unaudited(r) ==
    [r EXCEPT !.pm2 = "none", !.attempts = 0, !.entries = 0, !.nspawn = 0,
              !.spid = 0, !.pid0 = Undefined, !.prevCmd = "none",
              !.prevReport = "none", !.prevAlive = FALSE, !.afterPair = FALSE,
              !.live = 0, !.probed = "none", !.calls = 0]

\* Slot i becomes r
Put(i, r) == inv' = [inv EXCEPT ![i] = IF audit THEN r ELSE Unaudited(r)]

(***************************************************************************)
(* start (bin/index.js 358-417)                                            *)
(***************************************************************************)
\* The pm2 subprocess of `start`, as the CLI sees it (the bookkeeping field pm2):
\*   "throw"  spawn throws synchronously (the catch at 414)
\*   "error"  the 'error' event, after which 'close' comes with a code # 0
\*   "fail"   'close' with a code # 0
\*   "ok"     'close' with code 0
\* Entry into startNativeBackground from the state r
EnterNative(r) ==
    [r EXCEPT !.pc = "native_read", !.entries = @ + 1, !.child = 0,
              !.probed = "none"]

\* The action of `start` up to the spawn of pm2 (362-416); the outcome of the
\* subprocess is decided by the callbacks, except a synchronous throw
StartBegin(i) ==
    /\ inv[i].pc = "idle"
    /\ LET r == Fresh("start")
           missingParams == ValidateMandatoryConfig
       IN  IF Len(missingParams) > 0
           THEN Put(i,
                    [Finish(r, "missing_config", Undefined,
                            Cardinality(LiveServers))
                     EXCEPT !.msg = GetMissingConfigMessage(missingParams),
                            !.exit = 1])
           ELSE \E thrown \in BOOLEAN :
                  Put(i,
                     IF thrown
                     THEN EnterNative([r EXCEPT !.attempts = 1, !.pm2 = "throw"])
                     ELSE [r EXCEPT !.attempts = 1, !.pc = "pm2_wait"])
    /\ UNCHANGED <<env, store, procs, last, audit>>

\* pm2.on('error') of start (400-404): fall back; 'close' follows
StartPm2Error(i) ==
    /\ inv[i].cmd = "start" /\ inv[i].pc = "pm2_wait"
    /\ Put(i,
                  EnterNative([inv[i] EXCEPT !.pm2 = "error",
                                             !.closePending = TRUE]))
    /\ UNCHANGED <<env, store, procs, last, audit>>

\* pm2.on('close') of start (406-413) after the 'error' event: the code is
\* negative, so the fallback is entered once more
StartPm2CloseAfterError(i) ==
    /\ inv[i].cmd = "start" /\ inv[i].pc = "native_return"
    /\ inv[i].closePending
    /\ Put(i,
                  EnterNative([inv[i] EXCEPT !.closePending = FALSE]))
    /\ UNCHANGED <<env, store, procs, last, audit>>

\* the 'close' handler of start without its test of the code: the fallback
\* is entered after a successful pm2 start too
StartPm2CloseUntested(i) ==
    /\ inv[i].cmd = "start" /\ inv[i].pc = "pm2_wait"
    /\ \E code \in {0, 1} :
         IF code # 0
         THEN /\ Put(i, EnterNative([inv[i] EXCEPT !.pm2 = "fail"]))
              /\ procs' = procs
         ELSE \E p \in PIDs :
                /\ IF LivePm2 # {} THEN p \in LivePm2 ELSE p \in FreePids
                /\ procs' = [procs EXCEPT ![p] = "pm2"]
                /\ Put(i, EnterNative([inv[i] EXCEPT !.pm2 = "ok"]))
    /\ UNCHANGED <<env, store, last, audit>>

\* pm2.on('close') of start (406-413). With code 0 pm2 runs redep-server: the
\* process it manages is up (brought up by this call unless it was already).
StartPm2Close(i) ==
    /\ inv[i].cmd = "start" /\ inv[i].pc = "pm2_wait"
    /\ \E code \in {0, 1} :
         IF code # 0
         THEN /\ Put(i,
                            EnterNative([inv[i] EXCEPT !.pm2 = "fail"]))
              /\ procs' = procs
         ELSE \E p \in PIDs :
                /\ IF LivePm2 # {} THEN p \in LivePm2 ELSE p \in FreePids
                /\ procs' = [procs EXCEPT ![p] = "pm2"]
                /\ Put(i,
                      Finish([inv[i] EXCEPT !.pm2 = "ok", !.spid = p],
                             "pm2_started", Undefined,
                             Cardinality(LiveServers \cup {p})))
    /\ UNCHANGED <<env, store, last, audit>>

(***************************************************************************)
(* startNativeBackground (bin/index.js 419-447), one step per access to    *)
(* the store or the process table                                          *)
(***************************************************************************)
\* The return of startNativeBackground: to the pending 'close' or to the end
NativeReturn(r, report, rpid, live) ==
    IF r.closePending
    THEN [r EXCEPT !.pc = "native_return", !.report = report, !.rpid = rpid,
                   !.pid = Undefined]
    ELSE Finish(r, report, rpid, live)

\* startNativeBackground without its look at server_pid: it always spawns
NativeReadForgetful(i) ==
    /\ inv[i].cmd = "start" /\ inv[i].pc = "native_read"
    /\ Put(i, [inv[i] EXCEPT !.pid = Undefined, !.pc = "native_spawn"])
    /\ UNCHANGED <<env, store, procs, last, audit>>

\* 420-422: existingPid = getConfig('server_pid')
NativeRead(i) ==
    /\ inv[i].cmd = "start" /\ inv[i].pc = "native_read"
    /\ LET existingPid == GetConfig("server_pid")
       IN  Put(i,
              [inv[i] EXCEPT !.pid = existingPid,
                             !.pc = IF Falsy(existingPid) THEN "native_spawn"
                                    ELSE "native_probe"])
    /\ UNCHANGED <<env, store, procs, last, audit>>

\* the probe of 423-430 that trusts the recorded PID without signalling it
NativeProbeOutcomeTrusting(pid) == "ok"

\* 423-430: process.kill(existingPid, 0) returns, or throws whatever the reason
NativeProbeOutcome(pid) == KillResult(pid)

\* 423-430: the probe; alive: warn and return; any exception: clear next
NativeProbe(i) ==
    /\ inv[i].cmd = "start" /\ inv[i].pc = "native_probe"
    /\ LET r == [inv[i] EXCEPT !.probed = ProcKind(inv[i].pid)]
       IN  Put(i,
              IF NativeProbeOutcome(inv[i].pid) = "ok"
              THEN NativeReturn(r, "already_running", inv[i].pid,
                                Cardinality(LiveServers))
              ELSE [r EXCEPT !.pc = "native_clear"])
    /\ UNCHANGED <<env, store, procs, last, audit>>

\* 429: setConfig('server_pid', null)
NativeClear(i) ==
    /\ inv[i].cmd = "start" /\ inv[i].pc = "native_clear"
    /\ store' = SetConfig("server_pid", Null)
    /\ Put(i, [inv[i] EXCEPT !.pc = "native_spawn"])
    /\ UNCHANGED <<env, procs, last, audit>>

\* 433-444: spawn the detached `listen` child; the system picks its pid
NativeSpawn(i) ==
    /\ inv[i].cmd = "start" /\ inv[i].pc = "native_spawn"
    /\ \E p \in FreePids :
         /\ procs' = [procs EXCEPT ![p] = "native"]
         /\ Put(i,
               [inv[i] EXCEPT !.child = p, !.nspawn = @ + 1, !.spid = p,
                              !.pid = Undefined, !.pc = "native_persist"])
    /\ UNCHANGED <<env, store, last, audit>>

\* 445-446: setConfig('server_pid', child.pid) and the success line
NativePersist(i) ==
    /\ inv[i].cmd = "start" /\ inv[i].pc = "native_persist"
    /\ store' = SetConfig("server_pid", Num(inv[i].child))
    /\ Put(i,
          NativeReturn(inv[i], "native_started", Num(inv[i].child),
                       Cardinality(LiveServers)))
    /\ UNCHANGED <<env, procs, last, audit>>

(***************************************************************************)
(* stop (bin/index.js 449-482)                                             *)
(***************************************************************************)
\* 454: spawn pm2 stop redep-server and register the 'close' handler
StopBegin(i) ==
    /\ inv[i].pc = "idle"
    /\ Put(i,
                  [Fresh("stop") EXCEPT !.attempts = 1, !.pc = "pm2_wait"])
    /\ UNCHANGED <<env, store, procs, last, audit>>

\* The subprocess emits 'error': stop registers no handler for it, so the
\* event is an uncaught exception and the CLI dies before 'close'
StopPm2Error(i) ==
    /\ inv[i].cmd = "stop" /\ inv[i].pc = "pm2_wait"
    /\ Put(i,
          [Finish([inv[i] EXCEPT !.pm2 = "error"], "uncaught", Undefined,
                  Cardinality(LiveServers))
           EXCEPT !.exit = 1])
    /\ UNCHANGED <<env, store, procs, last, audit>>

\* 456-467: 'close'. Code 0: pm2 has stopped the process it manages, the CLI
\* logs and returns. Otherwise pid = getConfig('server_pid'); none: warn.
StopPm2Close(i) ==
    /\ inv[i].cmd = "stop" /\ inv[i].pc = "pm2_wait"
    /\ \E code \in {0, 1} :
         IF code = 0
         THEN /\ procs' = [p \in PIDs |->
                             IF procs[p] = "pm2" THEN "free" ELSE procs[p]]
              /\ Put(i,
                    Finish([inv[i] EXCEPT !.pm2 = "ok"], "pm2_stopped",
                           Undefined, Cardinality(LiveNative)))
         ELSE /\ procs' = procs
              /\ LET pid == GetConfig("server_pid")
                     r == [inv[i] EXCEPT !.pm2 = "fail", !.entries = 1,
                                         !.pid = pid]
                 IN  Put(i,
                        IF Falsy(pid)
                        THEN Finish(r, "no_active", Undefined,
                                    Cardinality(LiveServers))
                        ELSE [r EXCEPT !.pc = "stop_kill"])
    /\ UNCHANGED <<env, store, last, audit>>

\* 470 and 473-479: process.kill(pid) sends SIGTERM, which ends the process
\* it reaches; ESRCH: warn and clean up next; another error: log it
StopKill(i) ==
    /\ inv[i].cmd = "stop" /\ inv[i].pc = "stop_kill"
    /\ LET res == KillResult(inv[i].pid)
       IN  /\ procs' = IF res = "ok"
                       THEN [procs EXCEPT ![PidOf(inv[i].pid)] = "free"]
                       ELSE procs
           /\ Put(i,
                 LET r == [inv[i] EXCEPT !.probed = ProcKind(inv[i].pid)]
                 IN  CASE res = "ok" ->
                            [r EXCEPT !.pc = "stop_clear",
                                      !.report = "stopped"]
                       [] res = "ESRCH" ->
                            [r EXCEPT !.pc = "stop_clear",
                                      !.report = "cleaned"]
                       [] OTHER ->
                            Finish(r, "stop_failed", inv[i].pid,
                                   Cardinality(LiveServers)))
    /\ UNCHANGED <<env, store, last, audit>>

\* 471-472 and 475-476: setConfig('server_pid', null) and the log line
StopClear(i) ==
    /\ inv[i].cmd = "stop" /\ inv[i].pc = "stop_clear"
    /\ store' = SetConfig("server_pid", Null)
    /\ Put(i,
          Finish(inv[i], inv[i].report, inv[i].pid, Cardinality(LiveServers)))
    /\ UNCHANGED <<env, procs, last, audit>>

(***************************************************************************)
(* status (bin/index.js 484-510)                                           *)
(***************************************************************************)
\* 489: spawn pm2 describe redep-server and register the 'close' handler
StatusBegin(i) ==
    /\ inv[i].pc = "idle"
    /\ Put(i,
                  [Fresh("status") EXCEPT !.attempts = 1, !.pc = "pm2_wait"])
    /\ UNCHANGED <<env, store, procs, last, audit>>

\* 'error' of the subprocess: no handler, an uncaught exception
StatusPm2Error(i) ==
    /\ inv[i].cmd = "status" /\ inv[i].pc = "pm2_wait"
    /\ Put(i,
          [Finish([inv[i] EXCEPT !.pm2 = "error"], "uncaught", Undefined,
                  Cardinality(LiveServers))
           EXCEPT !.exit = 1])
    /\ UNCHANGED <<env, store, procs, last, audit>>

\* 491-499: 'close'. Code 0: the CLI prints nothing, pm2's description is the
\* output. Otherwise pid = getConfig('server_pid'); none: NOT running.
StatusPm2Close(i) ==
    /\ inv[i].cmd = "status" /\ inv[i].pc = "pm2_wait"
    /\ \E code \in {0, 1} :
         IF code = 0
         THEN Put(i,
                 Finish([inv[i] EXCEPT !.pm2 = "ok"], "pm2_describe",
                        Undefined, Cardinality(LiveServers)))
         ELSE LET pid == GetConfig("server_pid")
                  r == [inv[i] EXCEPT !.pm2 = "fail", !.entries = 1,
                                      !.pid = pid]
              IN  Put(i,
                     IF Falsy(pid)
                     THEN Finish(r, "not_running", Undefined,
                                 Cardinality(LiveServers))
                     ELSE [r EXCEPT !.pc = "status_probe"])
    /\ UNCHANGED <<env, store, procs, last, audit>>

\* 501-505: process.kill(pid, 0); it returns: RUNNING; it throws: NOT running
StatusProbe(i) ==
    /\ inv[i].cmd = "status" /\ inv[i].pc = "status_probe"
    /\ LET r == [inv[i] EXCEPT !.probed = ProcKind(inv[i].pid)]
       IN  Put(i,
              IF KillResult(inv[i].pid) = "ok"
              THEN Finish(r, "running", inv[i].pid, Cardinality(LiveServers))
              ELSE [r EXCEPT !.pc = "status_clear", !.report = "stale",
                             !.rpid = inv[i].pid])
    /\ UNCHANGED <<env, store, procs, last, audit>>

\* the catch of status without its setConfig: the stale PID stays
StatusClearKeepsPid(i) ==
    /\ inv[i].cmd = "status" /\ inv[i].pc = "status_clear"
    /\ Put(i, Finish(inv[i], "stale", inv[i].pid, Cardinality(LiveServers)))
    /\ UNCHANGED <<env, store, procs, last, audit>>

\* 506: setConfig('server_pid', null)
StatusClear(i) ==
    /\ inv[i].cmd = "status" /\ inv[i].pc = "status_clear"
    /\ store' = SetConfig("server_pid", Null)
    /\ Put(i,
          Finish(inv[i], "stale", inv[i].pid, Cardinality(LiveServers)))
    /\ UNCHANGED <<env, procs, last, audit>>

(***************************************************************************)
(* listen (bin/index.js 513-533), config get (160-166), config set         *)
(* (152-158) and config clear (347-353)                                    *)
(***************************************************************************)
\* 517-533: validate, then resolve the settings and call startServer
Listen(i) ==
    /\ inv[i].pc = "idle"
    /\ LET r == Fresh("listen")
           missingParams == ValidateMandatoryConfig
       IN  Put(i,
              IF Len(missingParams) > 0
              THEN [Finish(r, "missing_config", Undefined,
                           Cardinality(LiveServers))
                    EXCEPT !.msg = GetMissingConfigMessage(missingParams),
                           !.exit = 1]
              ELSE [Finish(r, "serving", Undefined, Cardinality(LiveServers))
                    EXCEPT !.served = TRUE])
    /\ UNCHANGED <<env, store, procs, last, audit>>

\* 163-166: value = getConfig(key), logged
ConfigGet(i, key) ==
    /\ inv[i].pc = "idle"
    /\ Put(i,
          [Finish(Fresh("config_get"), "value", GetConfig(key),
                  Cardinality(LiveServers))
           EXCEPT !.msg = Str(key)])
    /\ UNCHANGED <<env, store, procs, last, audit>>

\* 155-157: setConfig(key, value) with the string of the command line (the
\* _meta entry setConfig adds is a key no command of the model reads)
ConfigSet(i, key, value) ==
    /\ inv[i].pc = "idle"
    /\ store' = SetConfig(key, value)
    /\ Put(i,
          [Finish(Fresh("config_set"), "updated", value,
                  Cardinality(LiveServers))
           EXCEPT !.msg = Str(key)])
    /\ UNCHANGED <<env, procs, last, audit>>

\* 350-352: clearConfig() empties the store
ConfigClear(i) ==
    /\ inv[i].pc = "idle"
    /\ store' = [k \in StoreKeys |-> Undefined]
    /\ Put(i,
          Finish(Fresh("config_clear"), "cleared", Undefined,
                 Cardinality(LiveServers)))
    /\ UNCHANGED <<env, procs, last, audit>>


(***************************************************************************)
(* deploy <serverName> (bin/index.js 536-572)                              *)
(***************************************************************************)
\* A JS object with the properties props (a function from their names)
ObjectOf(props) == [t |-> "object", props |-> props]

\* obj[name] of JS: the property if obj is an object that has it
Member(obj, name) ==
    IF obj.t = "object" /\ "props" \in DOMAIN obj /\ name \in DOMAIN obj.props
    THEN obj.props[name]
    ELSE Undefined

\* a || b of JS
OrElse(a, b) == IF Falsy(a) THEN b ELSE a

\* the resolution of 540-549 that never looks at the profiles
DeployTargetGlobalOnly(serverName) ==
    [url |-> OrElse(GetConfig("server_url"), env["SERVER_URL"]),
     secret |-> OrElse(GetConfig("secret_key"), env["SECRET_KEY"])]

\* 540-549: serverUrl and secret, of the profile servers[serverName] if it is
\* truthy, else the global server_url and secret_key
DeployTarget(serverName) ==
    LET servers == OrElse(GetConfig("servers"), EmptyObject)
        profile == Member(servers, serverName)
    IN  IF ~Falsy(profile)
        THEN [url |-> Member(profile, "url"),
              secret |-> Member(profile, "secret")]
        ELSE [url |-> OrElse(GetConfig("server_url"), env["SERVER_URL"]),
              secret |-> OrElse(GetConfig("secret_key"), env["SECRET_KEY"])]

\* 539-566: resolve, exit 1 without a URL or without a secret, else call the
\* trigger client and await it
DeployBegin(i, serverName) ==
    /\ inv[i].pc = "idle"
    /\ LET r == [Fresh("deploy") EXCEPT !.arg = serverName]
           target == DeployTarget(serverName)
       IN  Put(i,
              CASE Falsy(target.url) ->
                     [Finish(r, "no_server_url", Undefined,
                             Cardinality(LiveServers)) EXCEPT !.exit = 1]
                [] ~Falsy(target.url) /\ Falsy(target.secret) ->
                     [Finish(r, "no_secret", Undefined,
                             Cardinality(LiveServers)) EXCEPT !.exit = 1]
                [] OTHER ->
                     [r EXCEPT !.pc = "deploy_wait", !.calls = @ + 1,
                               !.sent = [name |-> serverName,
                                         url |-> target.url,
                                         secret |-> target.secret]])
    /\ UNCHANGED <<env, store, procs, last, audit>>

\* 566: the promise of the trigger client resolves
DeployResolved(i) ==
    /\ inv[i].cmd = "deploy" /\ inv[i].pc = "deploy_wait"
    /\ Put(i, Finish(inv[i], "deployed", Undefined, Cardinality(LiveServers)))
    /\ UNCHANGED <<env, store, procs, last, audit>>

\* 567-570: the trigger client throws: log "Deploy failed" and exit 1
DeployRejected(i) ==
    /\ inv[i].cmd = "deploy" /\ inv[i].pc = "deploy_wait"
    /\ Put(i,
          [Finish(inv[i], "deploy_failed", Undefined, Cardinality(LiveServers))
           EXCEPT !.exit = 1])
    /\ UNCHANGED <<env, store, procs, last, audit>>

(***************************************************************************)
(* The end of a CLI process, and the host around it                        *)
(***************************************************************************)
\* The CLI process ends (program.parse at 574 has nothing left to run)
Exit(i) ==
    /\ inv[i].pc = "done"
    /\ last' = IF ~audit THEN NoLast ELSE
               [cmd |-> inv[i].cmd,
                report |-> inv[i].report,
                spid |-> inv[i].spid,
                pair |-> /\ inv[i].cmd = "start" /\ inv[i].exit = 0
                         /\ inv[i].prevCmd = "start" /\ inv[i].prevAlive]
    /\ Put(i, Idle)
    /\ UNCHANGED <<env, store, procs, audit>>

\* A process ends by itself: a server crashes, a foreign process finishes
ProcExit(p) ==
    /\ procs[p] # "free"
    /\ procs' = [procs EXCEPT ![p] = "free"]
    /\ UNCHANGED <<env, store, inv, last, audit>>

\* The system gives a free pid to a process the supervisor did not start; the
\* model follows one such process at a time
ForeignSpawn(p, kind) ==
    /\ procs[p] = "free"
    /\ Foreign = {}
    /\ procs' = [procs EXCEPT ![p] = kind]
    /\ UNCHANGED <<env, store, inv, last, audit>>

(***************************************************************************)
(* Specifications                                                          *)
(***************************************************************************)
NoEnv == [n \in EnvNames |-> Undefined]
EmptyStore == [k \in StoreKeys |-> Undefined]
MandatoryKeys == {"secret_key", "working_dir", "deployment_command"}

\* The host after `redep init server`: the three mandatory keys are stored,
\* nothing runs
Init ==
    /\ env = NoEnv
    /\ store = [k \in StoreKeys |->
                   IF k \in MandatoryKeys THEN Str("file") ELSE Undefined]
    /\ procs = [p \in PIDs |-> "free"]
    /\ inv = [i \in Invs |-> Idle]
    /\ last = NoLast
    /\ audit = TRUE

\* The steps of the invocations in progress; NativeClear, which needs a
\* recorded process to have died, is listed apart
StartSteps(i) ==
    \/ StartPm2Error(i)
    \/ StartPm2Close(i)
    \/ StartPm2CloseAfterError(i)
    \/ NativeRead(i)
    \/ NativeProbe(i)
    \/ NativeSpawn(i)
    \/ NativePersist(i)

StopSteps(i) ==
    \/ StopPm2Error(i)
    \/ StopPm2Close(i)
    \/ StopKill(i)
    \/ StopClear(i)

StatusSteps(i) ==
    \/ StatusPm2Error(i)
    \/ StatusPm2Close(i)
    \/ StatusProbe(i)
    \/ StatusClear(i)

Steps(i) ==
    \/ StartSteps(i)
    \/ NativeClear(i)
    \/ StopSteps(i)
    \/ StatusSteps(i)
    \/ Exit(i)

Host ==
    \/ \E p \in PIDs : ProcExit(p)
    \/ \E p \in PIDs, kind \in ForeignKinds : ForeignSpawn(p, kind)

\* One operator at one terminal: a command is entered when the one before it
\* has ended
Next ==
    \/ \E i \in Invs : AllIdle /\ i = 1 /\ StartBegin(i)
    \/ \E i \in Invs : AllIdle /\ i = 1 /\ StopBegin(i)
    \/ \E i \in Invs : AllIdle /\ i = 1 /\ StatusBegin(i)
    \/ \E i \in Invs : Steps(i)
    \/ Host

Spec == Init /\ [][Next]_vars

\* Invocations overlap: a command may be entered while others are running
NextConcurrent ==
    \/ \E i \in Invs : StartBegin(i)
    \/ \E i \in Invs : StopBegin(i)
    \/ \E i \in Invs : StatusBegin(i)
    \/ \E i \in Invs : Steps(i)
    \/ \E p \in PIDs : ProcExit(p)

InitConcurrent ==
    /\ env = NoEnv
    /\ store = [k \in StoreKeys |->
                   IF k \in MandatoryKeys THEN Str("file") ELSE Undefined]
    /\ procs = [p \in PIDs |-> "free"]
    /\ inv = [i \in Invs |-> Idle]
    /\ last = NoLast
    /\ audit = FALSE

SpecConcurrent == InitConcurrent /\ [][NextConcurrent]_vars

(***************************************************************************)
(* The configuration as the input of getConfig, start and listen: every    *)
(* combination of environment and stored value of the mandatory keys, and  *)
(* every single environment variable against every single stored key.      *)
(***************************************************************************)
EnvValues == {Undefined, Str(""), Str("env")}
StoredStrings == {Undefined, Str(""), Str("file")}
StoredValues == {Undefined, Null, Str(""), Str("file"), Num(1), EmptyObject}

InitConfig ==
    /\ \/ /\ \E e \in [{"SECRET_KEY", "WORKING_DIR", "DEPLOYMENT_COMMAND"}
                          -> EnvValues] :
               env = [n \in EnvNames |->
                         IF n \in DOMAIN e THEN e[n] ELSE Undefined]
          /\ \E f \in [MandatoryKeys -> StoredStrings] :
               store = [k \in StoreKeys |->
                           IF k \in DOMAIN f THEN f[k] ELSE Undefined]
       \/ /\ \E n \in EnvNames, e \in EnvValues :
               env = [NoEnv EXCEPT ![n] = e]
          /\ \E k \in StoreKeys, v \in StoredValues :
               store = [EmptyStore EXCEPT ![k] = v]
    /\ procs = [p \in PIDs |-> "free"]
    /\ inv = [i \in Invs |-> Idle]
    /\ last = NoLast
    /\ audit = TRUE

NextConfig ==
    \/ \E i \in Invs, key \in StoreKeys : AllIdle /\ i = 1 /\ ConfigGet(i, key)
    \/ \E i \in Invs : AllIdle /\ i = 1 /\ Listen(i)
    \/ \E i \in Invs : AllIdle /\ i = 1 /\ StartBegin(i)
    \/ \E i \in Invs : StartSteps(i) \/ Exit(i)

\* The commands that read the configuration, on a host where no process dies
SpecConfig == InitConfig /\ [][NextConfig]_vars

(***************************************************************************)
(* The configuration as the input of deploy: every combination of the      *)
(* global server_url and secret_key in environment and store, with every   *)
(* shape of the stored servers map for the one profile name ProfileName.   *)
(***************************************************************************)
ProfileName == "prod"
ServerNames == {ProfileName, "dev"}
ProfileUrls == {Undefined, Str(""), Str("https://prod")}
ProfileSecrets == {Undefined, Str(""), Str("prodsecret")}

\* servers[ProfileName] as the store can hold it: a profile, whole or with
\* properties missing or empty, or an empty string
ProfileEntries ==
    {ObjectOf([url |-> u, secret |-> k]) : u \in ProfileUrls,
                                            k \in ProfileSecrets}
      \cup {Str("")}

\* The stored value of servers
ServersValues ==
    {Undefined, EmptyObject, Str("file")}
      \cup {ObjectOf([n \in {ProfileName} |-> e]) : e \in ProfileEntries}

InitDeploy ==
    /\ \E e \in [{"SERVER_URL", "SECRET_KEY"} -> EnvValues] :
         env = [n \in EnvNames |-> IF n \in DOMAIN e THEN e[n] ELSE Undefined]
    /\ \E f \in [{"server_url", "secret_key"} -> StoredStrings],
          servers \in ServersValues :
         store = [k \in StoreKeys |->
                     IF k \in DOMAIN f THEN f[k]
                     ELSE IF k = "servers" THEN servers ELSE Undefined]
    /\ procs = [p \in PIDs |-> "free"]
    /\ inv = [i \in Invs |-> Idle]
    /\ last = NoLast
    /\ audit = TRUE

NextDeploy ==
    \/ \E i \in Invs, serverName \in ServerNames :
         AllIdle /\ i = 1 /\ DeployBegin(i, serverName)
    \/ \E i \in Invs : DeployResolved(i)
    \/ \E i \in Invs : DeployRejected(i)
    \/ \E i \in Invs : Exit(i)

\* The client command, on every configuration
SpecDeploy == InitDeploy /\ [][NextDeploy]_vars

(***************************************************************************)
(* The supervisor with the configuration commands: the operator also sets  *)
(* keys and clears the store between start, stop and status.               *)
(***************************************************************************)
\* The values `config set <key> <value>` is given: for server_pid the text of
\* a PID or a word, for a mandatory key a setting
CliValues(key) ==
    IF key = "server_pid"
    THEN {Str(ToString(p)) : p \in PIDs} \cup {Str("stale")}
    ELSE {Str("file")}

NextAdmin ==
    \/ \E i \in Invs : AllIdle /\ i = 1 /\ StartBegin(i)
    \/ \E i \in Invs : AllIdle /\ i = 1 /\ StopBegin(i)
    \/ \E i \in Invs : AllIdle /\ i = 1 /\ StatusBegin(i)
    \/ \E i \in Invs, key \in MandatoryKeys \cup {"server_pid"} :
         \E value \in CliValues(key) :
           AllIdle /\ i = 1 /\ ConfigSet(i, key, value)
    \/ \E i \in Invs : AllIdle /\ i = 1 /\ ConfigClear(i)
    \/ \E i \in Invs : Steps(i)
    \/ \E p \in PIDs : ProcExit(p)

SpecAdmin == Init /\ [][NextAdmin]_vars

(***************************************************************************)
(* Properties                                                              *)
(***************************************************************************)
Done(i, cmd) == inv[i].pc = "done" /\ inv[i].cmd = cmd

\* The environment variable the documentation gives for a key
\* (Advanced Configuration, Server Configuration), "" if it names none
DocumentedEnvName(key) ==
    CASE key = "server_port" -> "SERVER_PORT"
      [] key = "secret_key" -> "SECRET_KEY"
      [] key = "working_dir" -> "WORKING_DIR"
      [] key = "deployment_command" -> "DEPLOYMENT_COMMAND"
      [] key = "server_url" -> "SERVER_URL"
      [] OTHER -> ""

\* The value the precedence rule gives a key: environment, else stored, else
\* the default null (3000 for the port, {} for the profiles)
ByPrecedence(key) ==
    IF DocumentedEnvName(key) # "" /\ env[DocumentedEnvName(key)] # Undefined
    THEN env[DocumentedEnvName(key)]
    ELSE IF store[key] # Undefined
         THEN store[key]
         ELSE CASE key = "server_port" -> Num(3000)
                [] key = "servers" -> EmptyObject
                [] OTHER -> Null

\* C10: getConfig(key) returns the value of the key's environment variable
\* when the schema names one and it is defined, even if a value is stored;
\* otherwise the stored value if there is one; otherwise the schema default.
\* servers and server_pid, which have no environment variable, resolve from
\* the store and the default alone, whatever the environment holds.
C10_GetConfigPrecedence ==
    \A i \in Invs :
        (Done(i, "config_get") /\ inv[i].msg.s \in SchemaKeys) =>
            /\ inv[i].rpid = ByPrecedence(inv[i].msg.s)
            /\ inv[i].msg.s \in {"servers", "server_pid"} =>
                  inv[i].rpid = IF store[inv[i].msg.s] # Undefined
                                THEN store[inv[i].msg.s]
                                ELSE SchemaDefault(inv[i].msg.s)

\* C10 witness: secret_key is read while both its environment variable and a
\* stored value exist, and the environment's value is what comes back
C10_Witness ==
    \E i \in Invs :
        /\ Done(i, "config_get") /\ inv[i].msg = Str("secret_key")
        /\ env["SECRET_KEY"] = Str("env") /\ store["secret_key"] = Str("file")
        /\ inv[i].rpid = Str("env")

\* A mandatory key is unset when the value in force for it (that of its
\* environment variable if defined, else the stored one) is missing or empty
Unset(key) ==
    IF env[DocumentedEnvName(key)] # Undefined
    THEN env[DocumentedEnvName(key)] = Str("")
    ELSE store[key] \in {Undefined, Null, Str("")}

UnsetKeys == {k \in MandatoryKeys : Unset(k)}

Range(seq) == {seq[n] : n \in 1..Len(seq)}

\* C3: with a non-empty set M of unset mandatory keys, start and listen end
\* with exit code 1, having spawned no pm2 subprocess and no native process
\* and without calling startServer, and the message names the keys of M,
\* each once and no other.
C3_MissingKeysFailFast ==
    \A i \in Invs :
        ((Done(i, "start") \/ Done(i, "listen")) /\ UnsetKeys # {}) =>
            /\ inv[i].exit = 1
            /\ inv[i].attempts = 0 /\ inv[i].entries = 0
            /\ inv[i].nspawn = 0 /\ inv[i].spid = 0
            /\ ~inv[i].served
            /\ inv[i].msg # Null
            /\ Range(inv[i].msg.params) = UnsetKeys
            /\ Len(inv[i].msg.params) = Cardinality(UnsetKeys)

\* C3 witness: start has ended where working_dir and deployment_command are
\* unset and secret_key is set
C3_Witness ==
    \E i \in Invs :
        /\ Done(i, "start")
        /\ UnsetKeys = {"working_dir", "deployment_command"}
        /\ inv[i].exit = 1
        /\ inv[i].msg.params = <<"working_dir", "deployment_command">>

LiveKinds == {"native", "pm2", "other"}
SuccessfulStop == {"pm2_stopped", "stopped", "cleaned", "no_active"}

\* C1: a second start, run right after a start whose server is still alive,
\* leaves exactly one live server process, and a status after the pair
\* reports a running server (itself, or through the description pm2 prints).
C1_StartIdempotent ==
    \A i \in Invs :
        /\ (/\ Done(i, "start") /\ inv[i].exit = 0
            /\ inv[i].prevCmd = "start" /\ inv[i].prevAlive
            /\ last.spid \in LiveServers)
              => inv[i].live = 1
        /\ (Done(i, "status") /\ inv[i].afterPair /\ inv[i].exit = 0)
              => inv[i].report \in {"running", "pm2_describe"}

\* C2: at most one server process spawned by the supervisor is alive, however
\* start, stop and status invocations interleave.
C2_AtMostOneLiveServer == Cardinality(LiveNative) <= 1

\* C4: a status entered after a stop that ended successfully never reports a
\* running server.
C4_StopThenStatusNotRunning ==
    \A i \in Invs :
        (/\ Done(i, "status") /\ inv[i].prevCmd = "stop"
         /\ inv[i].prevReport \in SuccessfulStop)
            => inv[i].report # "running"

\* C5: a status that reaches the native path while server_pid names no
\* process reports NOT running, leaves server_pid null and ends with exit
\* code 0; the status after it finds no PID and reports NOT running too.
C5_StatusClearsStalePid ==
    \A i \in Invs :
        /\ (Done(i, "status") /\ inv[i].pm2 = "fail" /\ inv[i].probed = "free")
              => /\ inv[i].report = "stale"
                 /\ inv[i].exit = 0
                 /\ ~Falsy(inv[i].pid0) /\ inv[i].rpid = inv[i].pid0
                 /\ store["server_pid"] = Null
        /\ (/\ Done(i, "status") /\ inv[i].pm2 = "fail"
            /\ inv[i].prevCmd = "status" /\ inv[i].prevReport = "stale")
              => /\ Falsy(inv[i].pid0)
                 /\ inv[i].probed = "none"
                 /\ inv[i].report = "not_running"
                 /\ inv[i].exit = 0

\* C5 witness: the second status after a stale PID was cleared
C5_Witness ==
    \E i \in Invs :
        /\ Done(i, "status") /\ inv[i].pm2 = "fail"
        /\ inv[i].prevCmd = "status" /\ inv[i].prevReport = "stale"
        /\ inv[i].report = "not_running"

\* C6: the native path of stop. The signal finds no process: server_pid is
\* cleared and no error is reported. The signal is delivered: server_pid is
\* cleared. The signal fails otherwise: an error is reported and server_pid
\* is as it was. No PID is recorded: nothing is signalled and server_pid
\* stays absent.
C6_StopNativeOutcomes ==
    \A i \in Invs :
        (Done(i, "stop") /\ inv[i].pm2 = "fail") =>
            /\ inv[i].probed = "free" =>
                  /\ store["server_pid"] = Null
                  /\ inv[i].report = "cleaned" /\ inv[i].exit = 0
            /\ inv[i].probed \in LiveKinds =>
                  /\ store["server_pid"] = Null
                  /\ inv[i].report = "stopped"
            /\ inv[i].probed = "alien" =>
                  /\ store["server_pid"] = inv[i].pid0
                  /\ inv[i].report = "stop_failed"
            /\ Falsy(inv[i].pid0) =>
                  /\ inv[i].probed = "none"
                  /\ store["server_pid"] = inv[i].pid0
                  /\ inv[i].report = "no_active"
            /\ ~Falsy(inv[i].pid0) => inv[i].probed # "none"

\* C6 witness: stop has signalled a process of another user
C6_Witness ==
    \E i \in Invs :
        /\ Done(i, "stop") /\ inv[i].probed = "alien"
        /\ inv[i].report = "stop_failed"
        /\ store["server_pid"] = inv[i].pid0

\* C7: start validates first, then makes exactly one attempt at pm2, and
\* enters the native fallback exactly when that attempt threw, emitted
\* 'error' or closed with a non-zero code; after a close with code 0 no
\* native process has been spawned and server_pid is as it was.
C7_StartOrdering ==
    \A i \in Invs :
        inv[i].cmd = "start" =>
            /\ inv[i].attempts > 0 => UnsetKeys = {}
            /\ inv[i].entries > 0 =>
                  inv[i].attempts = 1 /\ inv[i].pm2 \in {"throw", "error", "fail"}
            /\ inv[i].pc = "done" =>
                  /\ inv[i].attempts = (IF UnsetKeys = {} THEN 1 ELSE 0)
                  /\ inv[i].entries > 0 <=>
                        inv[i].pm2 \in {"throw", "error", "fail"}
                  /\ inv[i].pm2 = "ok" =>
                        /\ inv[i].nspawn = 0
                        /\ store["server_pid"] = inv[i].pid0
                  /\ UnsetKeys = {} => inv[i].pm2 # "none"

\* C7 witness: a start that pm2 served, with a PID on record before and after
C7_Witness ==
    \E i \in Invs :
        /\ Done(i, "start") /\ inv[i].pm2 = "ok"
        /\ ~Falsy(inv[i].pid0) /\ store["server_pid"] = inv[i].pid0

\* C8: after a stop that pm2 served, server_pid is absent and no server
\* started by the supervisor is alive.
C8_Pm2StopClearsState ==
    \A i \in Invs :
        (Done(i, "stop") /\ inv[i].pm2 = "ok") =>
            /\ Falsy(store["server_pid"])
            /\ inv[i].live = 0

\* C9: startNativeBackground, as it returns. The probe of the recorded PID
\* succeeded: nothing was spawned, server_pid is unchanged and the PID is
\* reported. The probe found no process: one process was spawned and
\* server_pid is its PID.
C9_NativeStartDuplicate ==
    \A i \in Invs :
        (inv[i].cmd = "start" /\ inv[i].pc \in {"native_return", "done"}
           /\ inv[i].entries > 0) =>
            /\ inv[i].probed \in LiveKinds =>
                  /\ inv[i].child = 0
                  /\ inv[i].report = "already_running"
                  /\ ~Falsy(inv[i].rpid)
                  /\ store["server_pid"] = inv[i].rpid
                  /\ inv[i].entries = 1 =>
                        inv[i].nspawn = 0 /\ inv[i].rpid = inv[i].pid0
            /\ inv[i].probed = "free" =>
                  /\ inv[i].child # 0
                  /\ inv[i].child = inv[i].spid
                  /\ inv[i].report = "native_started"
                  /\ inv[i].rpid = Num(inv[i].child)
                  /\ store["server_pid"] = Num(inv[i].child)
                  /\ inv[i].entries = 1 => inv[i].nspawn = 1

\* C9 witness: a start found the recorded process gone and spawned another
C9_Witness ==
    \E i \in Invs :
        /\ Done(i, "start") /\ inv[i].probed = "free" /\ inv[i].entries = 1
        /\ store["server_pid"] = Num(inv[i].child)
        /\ procs[inv[i].child] = "native"


(***************************************************************************)
(* deploy                                                                  *)
(***************************************************************************)
\* The stored profile of the name, Undefined if the store holds none
StoredProfile(name) ==
    LET entry == Member(store["servers"], name)
    IN  IF entry.t = "object" THEN entry ELSE Undefined

\* The URL and secret the deployment is to use for the name: those of its
\* profile, else the global ones by the precedence of getConfig
Intended(name) ==
    IF StoredProfile(name) # Undefined
    THEN [url |-> Member(StoredProfile(name), "url"),
          secret |-> Member(StoredProfile(name), "secret")]
    ELSE [url |-> ByPrecedence("server_url"),
          secret |-> ByPrecedence("secret_key")]

StatusStep(i) ==
    /\ inv'[i] # inv[i]
    /\ inv[i].cmd = "status" \/ inv'[i].cmd = "status"

\* C12: status is non-destructive. No step of status ends a process (the only
\* signal it sends is the probe, which changes nothing), and the only change
\* it makes to the store is clearing server_pid; a status that ends while the
\* PID recorded when it began belongs to a live server has reported running
\* with that PID and left server_pid as it was.
C12_StatusNonDestructive ==
    /\ [][\A i \in Invs :
            StatusStep(i) =>
              /\ procs' = procs
              /\ store' = store \/ store' = SetConfig("server_pid", Null)]_vars
    /\ [](\A i \in Invs :
            (Done(i, "status") /\ ProcKind(inv[i].pid0) \in ServerKinds) =>
              /\ inv[i].report = "running"
              /\ inv[i].rpid = inv[i].pid0
              /\ store["server_pid"] = inv[i].pid0)

\* The kinds of a process that exists
ExistingKinds == ServerKinds \cup ForeignKinds

\* C13: server_pid is cleared as stale only when the recorded PID names no
\* live process. Whatever the probe of status or of the native path of start
\* answers, when the process it signalled exists the invocation does not go on
\* to clear server_pid, start spawns nothing and reports the existing PID,
\* status does not report NOT running, and server_pid is as it was; stop
\* cleans up a stale PID only when its signal found no process.
C13_ClearedOnlyWhenGone ==
    \A i \in Invs :
        /\ (inv[i].cmd = "status" /\ inv[i].probed \in ExistingKinds) =>
              /\ inv[i].pc # "status_clear"
              /\ inv[i].report # "stale"
              /\ store["server_pid"] = inv[i].pid0
        /\ (inv[i].cmd = "start" /\ inv[i].probed \in ExistingKinds) =>
              /\ inv[i].pc \notin {"native_clear", "native_spawn",
                                   "native_persist"}
              /\ inv[i].report = "already_running"
              /\ ~Falsy(store["server_pid"])
        /\ (inv[i].cmd = "stop" /\ inv[i].report = "cleaned") =>
              inv[i].probed = "free"

\* C14: across every sequence and interleaving of start, stop and status,
\* server_pid changes only from absent to the PID of the process a start has
\* just spawned, or from a PID to absent; it never goes from one PID to
\* another PID in one step.
C14_PidLifecycle ==
    [][LET old == store["server_pid"]
           new == store'["server_pid"]
       IN  new # old =>
             \/ /\ Falsy(old)
                /\ \E i \in Invs :
                     /\ inv[i].cmd = "start" /\ inv[i].pc = "native_persist"
                     /\ inv'[i].pc # "native_persist"
                     /\ new = Num(inv[i].child)
             \/ ~Falsy(old) /\ new = Null]_vars

\* C15: no orphaned daemon. After any sequence of start, stop, status,
\* config set and config clear, while a server spawned by the native path of
\* start is alive, server_pid is present and is the PID of that process.
C15_NoOrphanedDaemon ==
    AllIdle =>
      \A p \in LiveNative :
        /\ ~Falsy(store["server_pid"])
        /\ ValidPid(store["server_pid"])
        /\ PidOf(store["server_pid"]) = p

====
